---------------------------- MODULE Spec2Model ----------------------------
(***************************************************************************)
(* Model of ravenframework/SupervisedLearning/pickledROM.py: the           *)
(* placeholder ROM that stands in for a ROM to be unpickled from file.     *)
(*                                                                         *)
(* The instance is the record `self` holding the five fields __init__      *)
(* sets.  Every method of the class is an operator from the instance and   *)
(* the arguments to the pair (instance after the call, outcome of the      *)
(* call); the actions apply the operators and record the call in `last`.   *)
(* The input specification built by getInputSpecification is a tree of     *)
(* parameter inputs; `paramInput` is the configuration node last handed    *)
(* to it and `accepted` the verdict of the parse.                          *)
(***************************************************************************)
EXTENDS Integers, Sequences, FiniteSets, TLC

VARIABLES self, last, paramInput, accepted

vars == <<self, last, paramInput, accepted>>

(***************************************************************************)
(* Bounds of the model.                                                    *)
(***************************************************************************)
\* longest feature/target array handed to a method
MaxLen == 2
\* most sub nodes of the configuration's top node
MaxSubs == 1
\* most growth nodes under one Multicycle node
MaxGrowth == 1

(***************************************************************************)
(* Python values returned by the methods.                                  *)
(***************************************************************************)
None == [type |-> "NoneType", items |-> {}]

EmptyDict == [type |-> "dict", items |-> {}]

\* the arrays the methods are called with: every sequence over Values of
\* length 0..MaxLen (the empty array included)
Values == {0, 1}

Arrays == UNION {[1..n -> Values] : n \in 0..MaxLen}

(***************************************************************************)
(* Outcome of a call: either a normal return of `value` or a raised error  *)
(* of class `etype` carrying `message`.                                    *)
(***************************************************************************)
Return(value) ==
  [raised |-> FALSE, etype |-> "", message |-> "", value |-> value]

\* MessageUser.raiseAnError(etype, message): raises etype(message) through
\* the framework's error channel; it does not touch the instance.
raiseAnError(etype, message) ==
  [raised |-> TRUE, etype |-> etype, message |-> message, value |-> None]

(***************************************************************************)
(* pickledROM.__init__                                                     *)
(***************************************************************************)
\* __init__ with dynamic handling switched on, as the time-dependent ROMs do
initDynamic ==
  [printTag         |-> "pickledROM",
   _dynamicHandling |-> TRUE,
   initOptionDict   |-> EmptyDict,
   features         |-> <<"PlaceHolder">>,
   target           |-> "PlaceHolder"]

__init__ ==
  [printTag         |-> "pickledROM",
   _dynamicHandling |-> FALSE,
   initOptionDict   |-> EmptyDict,
   features         |-> <<"PlaceHolder">>,
   target           |-> "PlaceHolder"]

(***************************************************************************)
(* The methods.  Each yields [self |-> instance after, out |-> outcome].   *)
(***************************************************************************)
__confidenceLocal__(slf, featureVals) ==
  [self |-> slf, out |-> Return(None)]

\* a reset that refuses like train and evaluate do
resetRaises(slf) ==
  [self |-> slf,
   out  |-> raiseAnError("RuntimeError",
      "PickledROM has not been loaded from file yet!  An IO step is required to perform this action.")]

__resetLocal__(slf) ==
  [self |-> slf, out |-> Return(None)]

__returnCurrentSettingLocal__(slf) ==
  [self |-> slf, out |-> Return(None)]

\* initial parameters left unimplemented like the current settings
initialParametersPass(slf) ==
  [self |-> slf, out |-> Return(None)]

__returnInitialParametersLocal__(slf) ==
  LET params == EmptyDict
  IN  [self |-> slf, out |-> Return(params)]

\* an evaluate that reports the error of another class
evaluateOtherClass(slf, featureVals) ==
  [self |-> slf,
   out  |-> raiseAnError("IOError",
      "PickledROM has not been loaded from file yet!  An IO step is required to perform this action.")]

\* an evaluate whose message has one space after "yet!"
evaluateOneSpace(slf, featureVals) ==
  [self |-> slf,
   out  |-> raiseAnError("RuntimeError",
      "PickledROM has not been loaded from file yet! An IO step is required to perform this action.")]

\* an evaluate that hands back an empty prediction mapping
evaluateReturns(slf, featureVals) ==
  [self |-> slf, out |-> Return(EmptyDict)]

__evaluateLocal__(slf, featureVals) ==
  [self |-> slf,
   out  |-> raiseAnError("RuntimeError",
      "PickledROM has not been loaded from file yet!  An IO step is required to perform this action.")]

\* a train left unimplemented: returns without an error
trainPass(slf, featureVals, targetVals) ==
  [self |-> slf, out |-> Return(None)]

\* a train that notes the attempt in the options before it refuses
trainMarks(slf, featureVals, targetVals) ==
  [self |-> [slf EXCEPT !.initOptionDict =
                          [type |-> "dict", items |-> {"trained"}]],
   out  |-> raiseAnError("RuntimeError",
      "PickledROM has not been loaded from file yet!  An IO step is required to perform this action.")]

__trainLocal__(slf, featureVals, targetVals) ==
  [self |-> slf,
   out  |-> raiseAnError("RuntimeError",
      "PickledROM has not been loaded from file yet!  An IO step is required to perform this action.")]

\* the record of a call kept in `last`
Call(op, args, out) == [op |-> op, args |-> args, out |-> out]

(***************************************************************************)
(* Text of a configuration node or attribute: a sequence of characters.    *)
(***************************************************************************)
Digit == {"0", "1", "2", "3", "4", "5", "6", "7", "8", "9"}

DigitVal(c) ==
  CASE c = "0" -> 0 [] c = "1" -> 1 [] c = "2" -> 2 [] c = "3" -> 3
    [] c = "4" -> 4 [] c = "5" -> 5 [] c = "6" -> 6 [] c = "7" -> 7
    [] c = "8" -> 8 [] c = "9" -> 9

\* the text without a leading sign
Unsigned(text) ==
  IF Len(text) > 0 /\ text[1] \in {"+", "-"} THEN Tail(text) ELSE text

AllDigits(text) == Len(text) > 0 /\ \A i \in DOMAIN text : text[i] \in Digit

\* int(text) succeeds
IsInteger(text) == AllDigits(Unsigned(text))

\* float(text) succeeds: an integer literal or digits around one point
IsFloat(text) ==
  LET u == Unsigned(text)
      points == {i \in DOMAIN u : u[i] = "."}
  IN  \/ AllDigits(u)
      \/ /\ Cardinality(points) = 1
         /\ Len(u) > 1
         /\ \A i \in DOMAIN u : u[i] = "." \/ u[i] \in Digit

RECURSIVE NatValue(_)
NatValue(digits) ==
  IF digits = <<>> THEN 0
  ELSE 10 * NatValue(SubSeq(digits, 1, Len(digits) - 1))
         + DigitVal(digits[Len(digits)])

\* int(text) where it succeeds
IntValue(text) ==
  IF Len(text) > 0 /\ text[1] = "-" THEN 0 - NatValue(Unsigned(text))
  ELSE NatValue(Unsigned(text))

\* text.split(','): the comma-separated entries of a string list
RECURSIVE Split(_)
Split(text) ==
  IF \A i \in DOMAIN text : text[i] # ","
  THEN <<text>>
  ELSE LET k == CHOOSE i \in DOMAIN text :
                  text[i] = "," /\ \A j \in 1..(i - 1) : text[j] # ","
       IN  <<SubSeq(text, 1, k - 1)>> \o Split(SubSeq(text, k + 1, Len(text)))

(***************************************************************************)
(* InputTypes: the content types the specification uses.                   *)
(***************************************************************************)
IntegerType == [kind |-> "integer", enumList |-> {}]

FloatType == [kind |-> "float", enumList |-> {}]

StringType == [kind |-> "string", enumList |-> {}]

StringListType == [kind |-> "stringlist", enumList |-> {}]

makeEnumType(enumList) == [kind |-> "enum", enumList |-> enumList]

\* contentType.convert(text) succeeds
Converts(type, text) ==
  CASE type.kind = "integer"    -> IsInteger(text)
    [] type.kind = "float"      -> IsFloat(text)
    [] type.kind = "string"     -> TRUE
    [] type.kind = "stringlist" -> Len(Split(text)) > 0
    [] type.kind = "enum"       -> text \in type.enumList

(***************************************************************************)
(* InputData: parameter inputs (nodes of the specification).               *)
(***************************************************************************)
parameterInputFactory(name, contentType, default) ==
  [name |-> name, contentType |-> contentType, default |-> default,
   parameters |-> {}, subs |-> {}]

addSub(spec, sub) == [spec EXCEPT !.subs = @ \cup {sub}]

addParam(spec, name, type, required) ==
  [spec EXCEPT !.parameters =
     @ \cup {[name |-> name, type |-> type, required |-> required]}]

(***************************************************************************)
(* Words of the specification, as text.                                    *)
(***************************************************************************)
exponential == <<"e", "x", "p", "o", "n", "e", "n", "t", "i", "a", "l">>

linear == <<"l", "i", "n", "e", "a", "r">>

clustered == <<"c", "l", "u", "s", "t", "e", "r", "e", "d">>

truncated == <<"t", "r", "u", "n", "c", "a", "t", "e", "d">>

full == <<"f", "u", "l", "l">>

(***************************************************************************)
(* pickledROM.getInputSpecification                                        *)
(***************************************************************************)
\* super().getInputSpecification(): the parent's specification, to which
\* the nodes below are added
baseSpecification == parameterInputFactory("pickledROM", StringType, "None")

seed == parameterInputFactory("seed", IntegerType, "None")

cycles == parameterInputFactory("cycles", IntegerType, "no-default")

growthEnumType == makeEnumType({exponential, linear})

\* growth with the mode attribute left optional
growthModeOptional ==
  LET g0 == parameterInputFactory("growth", FloatType, "None")
      g1 == addParam(g0, "targets", StringListType, TRUE)
      g2 == addParam(g1, "start_index", IntegerType, FALSE)
      g3 == addParam(g2, "end_index", IntegerType, FALSE)
  IN  addParam(g3, "mode", growthEnumType, FALSE)

growth ==
  LET g0 == parameterInputFactory("growth", FloatType, "None")
      g1 == addParam(g0, "targets", StringListType, TRUE)
      g2 == addParam(g1, "start_index", IntegerType, FALSE)
      g3 == addParam(g2, "end_index", IntegerType, FALSE)
  IN  addParam(g3, "mode", growthEnumType, TRUE)

multicycle ==
  LET m0 == parameterInputFactory("Multicycle", StringType, "None")
      m1 == addSub(m0, cycles)
  IN  addSub(m1, growth)

\* the enumeration without its middle entry
clusterEvalModeEnumShort == makeEnumType({clustered, full})

clusterEvalModeEnum == makeEnumType({clustered, truncated, full})

clusterEvalMode ==
  parameterInputFactory("clusterEvalMode", clusterEvalModeEnum, "None")

maxCycles == parameterInputFactory("maxCycles", IntegerType, "None")

getInputSpecification ==
  LET s1 == addSub(baseSpecification, seed)
      s2 == addSub(s1, multicycle)
      s3 == addSub(s2, clusterEvalMode)
  IN  addSub(s3, maxCycles)

(***************************************************************************)
(* ParameterInput.parseNode: the node is accepted by the specification.    *)
(* A configuration node is [name, attrib, text, subs]; attrib is a set of  *)
(* [name, value] pairs and subs a sequence of nodes.                       *)
(***************************************************************************)
RECURSIVE parseNode(_, _)
parseNode(spec, node) ==
  /\ node.name = spec.name
  /\ Converts(spec.contentType, node.text)
  /\ \A p \in spec.parameters :
       p.required => \E a \in node.attrib : a.name = p.name
  /\ \A a \in node.attrib :
       \E p \in spec.parameters :
         p.name = a.name /\ Converts(p.type, a.value)
  /\ \A i \in DOMAIN node.subs :
       \E s \in spec.subs :
         s.name = node.subs[i].name /\ parseNode(s, node.subs[i])
  /\ \A s \in spec.subs :
       s.default = "no-default" =>
         \E i \in DOMAIN node.subs : node.subs[i].name = s.name


(***************************************************************************)
(* The configurations handed to the specification.                         *)
(***************************************************************************)
Node(name, attrib, text, subs) ==
  [name |-> name, attrib |-> attrib, text |-> text, subs |-> subs]

Attr(name, value) == [name |-> name, value |-> value]

\* every sequence over S of length 0..n
SeqsUpTo(S, n) == UNION {[1..k -> S] : k \in 0..n}

invalidMode == <<"i", "n", "v", "a", "l", "i", "d", "-", "m", "o", "d", "e">>

cubic == <<"c", "u", "b", "i", "c">>

T1 == <<"T", "1">>

five == <<"5">>

fifty == <<"5", "0">>

notANumber == <<"x">>

\* growth nodes: targets and mode present or absent, mode inside or outside
\* the enumeration, and a content that is or is not a float
GrowthAttribs ==
  {ts \cup ms : ts \in {{}, {Attr("targets", T1)}},
                ms \in {{}, {Attr("mode", linear)}, {Attr("mode", exponential)},
                        {Attr("mode", cubic)}}}

GrowthNodes ==
  {Node("growth", a, fifty, <<>>) : a \in GrowthAttribs}
    \cup {Node("growth", {Attr("targets", T1), Attr("mode", linear)},
               notANumber, <<>>)}

CyclesNodes == {Node("cycles", {}, t, <<>>) : t \in {five, notANumber}}

MulticycleNodes ==
  {Node("Multicycle", {}, <<>>, c \o g) :
     c \in SeqsUpTo(CyclesNodes, 1), g \in SeqsUpTo(GrowthNodes, MaxGrowth)}

ClusterEvalModeNodes ==
  {Node("clusterEvalMode", {}, t, <<>>) :
     t \in {clustered, truncated, full, invalidMode}}

SeedNodes == {Node("seed", {}, t, <<>>) : t \in {five, notANumber}}

MaxCyclesNodes == {Node("maxCycles", {}, five, <<>>)}

TopNodes ==
  MulticycleNodes \cup ClusterEvalModeNodes \cup SeedNodes \cup MaxCyclesNodes

Configs == {Node("pickledROM", {}, <<>>, s) : s \in SeqsUpTo(TopNodes, MaxSubs)}

(***************************************************************************)
(* The state machine.                                                      *)
(***************************************************************************)
\* a ROM of subtype pickledROM given by its name and subtype alone has been
\* parsed and the instance constructed
Init ==
  /\ self = __init__
  /\ last = Call("__init__", <<>>, Return(None))
  /\ paramInput = Node("pickledROM", {}, <<>>, <<>>)
  /\ accepted = parseNode(getInputSpecification, paramInput)

Apply(r, op, args) ==
  /\ self' = r.self
  /\ last' = Call(op, args, r.out)
  /\ UNCHANGED <<paramInput, accepted>>

Confidence ==
  \E featureVals \in Arrays :
    Apply(__confidenceLocal__(self, featureVals),
          "__confidenceLocal__", <<featureVals>>)

Reset == Apply(__resetLocal__(self), "__resetLocal__", <<>>)

ReturnCurrentSetting ==
  Apply(__returnCurrentSettingLocal__(self),
        "__returnCurrentSettingLocal__", <<>>)

ReturnInitialParameters ==
  Apply(__returnInitialParametersLocal__(self),
        "__returnInitialParametersLocal__", <<>>)

Evaluate ==
  \E featureVals \in Arrays :
    Apply(__evaluateLocal__(self, featureVals),
          "__evaluateLocal__", <<featureVals>>)

Train ==
  \E featureVals \in Arrays, targetVals \in Arrays :
    Apply(__trainLocal__(self, featureVals, targetVals),
          "__trainLocal__", <<featureVals, targetVals>>)

\* a configuration is checked against the input specification
ParseNode ==
  \E node \in Configs :
    /\ paramInput' = node
    /\ accepted' = parseNode(getInputSpecification, node)
    /\ UNCHANGED <<self, last>>

Next ==
  \/ Confidence
  \/ Reset
  \/ ReturnCurrentSetting
  \/ ReturnInitialParameters
  \/ Evaluate
  \/ Train
  \/ ParseNode

Spec == Init /\ [][Next]_vars


(***************************************************************************)
(* Properties.                                                             *)
(***************************************************************************)
TrainCalled == last.op = "__trainLocal__"

EvaluateCalled == last.op = "__evaluateLocal__"

\* C1: a train call on the placeholder, whatever the operations before it
\* and whatever the data, raises a RuntimeError whose message is the
\* not-loaded text with two spaces after "yet!"; it never returns normally.
C1_TrainRaisesNotLoaded ==
  TrainCalled =>
    /\ last.out.raised
    /\ last.out.etype = "RuntimeError"
    /\ last.out.message =
         "PickledROM has not been loaded from file yet!  An IO step is required to perform this action."

\* a train with non-empty features and targets has raised
C1_Witness ==
  /\ TrainCalled
  /\ last.args[1] # <<>>
  /\ last.args[2] # <<>>
  /\ last.out.raised

\* C2: an evaluate call on the placeholder fails exactly as train does: its
\* error class and message equal those of train for every input, and it
\* returns no prediction mapping.
C2_EvaluateFailsLikeTrain ==
  EvaluateCalled =>
    /\ last.out.raised
    /\ \A featureVals \in Arrays, targetVals \in Arrays :
         LET t == __trainLocal__(self, featureVals, targetVals).out
         IN  /\ t.raised
             /\ last.out.etype = t.etype
             /\ last.out.message = t.message

\* an evaluate with some feature data has raised
C2_Witness ==
  /\ EvaluateCalled
  /\ last.args[1] # <<>>
  /\ last.out.raised
  /\ last.out.etype = "RuntimeError"

\* C3 as stated: the message evaluate raises has a single space after "yet!".
C3_MessageOneSpace ==
  EvaluateCalled =>
    /\ last.out.raised
    /\ last.out.message =
         "PickledROM has not been loaded from file yet! An IO step is required to perform this action."

\* C3 amended: evaluate on the placeholder raises a runtime error whose
\* message has two spaces after "yet!".
C3_MessageTwoSpaces ==
  EvaluateCalled =>
    /\ last.out.raised
    /\ last.out.etype = "RuntimeError"
    /\ last.out.message =
         "PickledROM has not been loaded from file yet!  An IO step is required to perform this action."

\* an evaluate has raised with a message
C3_Witness ==
  /\ EvaluateCalled
  /\ last.out.raised
  /\ last.out.message # ""

\* C4: a step that ends in a failed train or evaluate leaves every field of
\* the instance as it was.
C4_FailedCallKeepsFields ==
  [][(last'.op \in {"__trainLocal__", "__evaluateLocal__"} /\ last'.out.raised)
       => /\ self'.printTag = self.printTag
          /\ self'._dynamicHandling = self._dynamicHandling
          /\ self'.initOptionDict = self.initOptionDict
          /\ self'.features = self.features
          /\ self'.target = self.target]_vars

\* a train has failed and the fields are those of construction
C4_Witness ==
  /\ TrainCalled
  /\ last.out.raised
  /\ self = __init__

\* the instance refuses both train and evaluate, for every input
Unrestored(slf) ==
  /\ \A featureVals \in Arrays, targetVals \in Arrays :
       __trainLocal__(slf, featureVals, targetVals).out.raised
  /\ \A featureVals \in Arrays :
       __evaluateLocal__(slf, featureVals).out.raised

\* C5: no operation of the component restores the instance: in every
\* reachable state train and evaluate still fail on it, and whichever of
\* the two ran last has failed.
C5_StaysUnrestored ==
  /\ Unrestored(self)
  /\ (TrainCalled \/ EvaluateCalled) => last.out.raised

\* after a call that returned normally the instance is still unrestored
C5_Witness ==
  /\ last.op = "__returnCurrentSettingLocal__"
  /\ ~last.out.raised
  /\ Unrestored(self)

\* C6: dynamic handling is off, features is the single placeholder entry
\* and target is the placeholder, in every state and for every
\* configuration.
C6_PlaceholderFields ==
  /\ self._dynamicHandling = FALSE
  /\ self.features = <<"PlaceHolder">>
  /\ self.target = "PlaceHolder"

\* a configuration with sub nodes was accepted and an operation has run
C6_Witness ==
  /\ paramInput.subs # <<>>
  /\ accepted
  /\ last.op = "__evaluateLocal__"
  /\ self._dynamicHandling = FALSE

\* C7: the initial parameters are returned as an empty mapping, without an
\* error, and the call changes no field.
C7_InitialParametersEmpty ==
  [][last'.op = "__returnInitialParametersLocal__"
       => /\ ~last'.out.raised
          /\ last'.out.value.type = "dict"
          /\ last'.out.value.items = {}
          /\ self' = self]_vars

\* the initial parameters were asked for and came back empty
C7_Witness ==
  /\ last.op = "__returnInitialParametersLocal__"
  /\ last.out.value.type = "dict"
  /\ last.out.value.items = {}
  /\ self = __init__

\* C8: reset and confidence never raise and leave the instance as it was.
C8_ResetConfidenceNoEffect ==
  [][last'.op \in {"__resetLocal__", "__confidenceLocal__"}
       => /\ ~last'.out.raised
          /\ self' = self]_vars

\* a reset has returned and the fields are those of construction
C8_Witness ==
  /\ last.op = "__resetLocal__"
  /\ ~last.out.raised
  /\ self = __init__

\* the growth nodes of the configuration
GrowthOf(config) ==
  {g \in UNION {{m.subs[j] : j \in DOMAIN m.subs} :
                  m \in {config.subs[i] : i \in DOMAIN config.subs}} :
     g.name = "growth"}

HasAttr(node, name) == \E a \in node.attrib : a.name = name

C9_Config ==
  Node("pickledROM", {}, <<>>,
       <<Node("Multicycle", {}, <<>>,
              <<Node("cycles", {}, <<"5">>, <<>>),
                Node("growth",
                     {Attr("targets", <<"T", "1">>),
                      Attr("mode", <<"l", "i", "n", "e", "a", "r">>)},
                     <<"5", "0">>, <<>>)>>)>>)

\* C9: the specification accepts Multicycle with cycles 5 and a growth node
\* with targets T1, mode linear and content 50; it rejects every
\* configuration with a growth node that lacks mode or targets, or whose
\* mode is neither exponential nor linear.
C9_GrowthSchema ==
  /\ paramInput = C9_Config => accepted
  /\ \A g \in GrowthOf(paramInput) :
       /\ ~HasAttr(g, "mode") => ~accepted
       /\ ~HasAttr(g, "targets") => ~accepted
       /\ \A a \in g.attrib :
            (a.name = "mode" /\ a.value \notin {exponential, linear})
              => ~accepted

\* the configuration of the claim was parsed and accepted
C9_Witness ==
  /\ paramInput = C9_Config
  /\ IntValue(paramInput.subs[1].subs[1].text) = 5
  /\ IntValue(paramInput.subs[1].subs[2].text) = 50
  /\ accepted

\* the values of the clusterEvalMode nodes of the configuration
ClusterEvalModesOf(config) ==
  {config.subs[i].text : i \in {j \in DOMAIN config.subs :
                                  config.subs[j].name = "clusterEvalMode"}}

\* C10: a configuration whose only node is clusterEvalMode is accepted when
\* the value is clustered, truncated or full; every configuration with a
\* clusterEvalMode outside these three is rejected.
C10_ClusterEvalModeSchema ==
  /\ \A t \in ClusterEvalModesOf(paramInput) :
       t \notin {clustered, truncated, full} => ~accepted
  /\ (Len(paramInput.subs) = 1 /\ ClusterEvalModesOf(paramInput) # {}
        /\ ClusterEvalModesOf(paramInput) \subseteq {clustered, truncated, full})
       => accepted

\* clusterEvalMode truncated was parsed and accepted
C10_Witness ==
  /\ ClusterEvalModesOf(paramInput)
       = {<<"t", "r", "u", "n", "c", "a", "t", "e", "d">>}
  /\ accepted


=============================================================================
